---- MODULE Spec2Model ----
(***************************************************************************)
(* Model of the PyRABIT client library (src/src/autorabit.py): the         *)
(* process-wide session set up by init() and the eight operations of       *)
(* CIJobService.  Every call is one atomic action: the library is          *)
(* synchronous and single-threaded.  Between two calls the caller takes the *)
(* outcome of the last one (takeOutcome).  The HTTP transport (the requests *)
(* package) is the environment: for every request it either raises a       *)
(* RequestException or hands back a response with a status code and a JSON *)
(* object as its body.                                                     *)
(*                                                                         *)
(* Strings the code only passes along (project names, tokens, endpoints,   *)
(* messages) are TLA+ strings; strings the code looks into (status values, *)
(* revisions) are sequences of one-character strings.                      *)
(***************************************************************************)
EXTENDS Integers, Sequences, FiniteSets, TLC

VARIABLES
    _endpoint,  \* module global _endpoint; None while unbound
    _token,     \* module global _token; None while unbound
    cijobs,     \* module global cijobs (a CIJobService); None while unbound
    op,         \* name of the call that just ended ("none" between calls)
    args,       \* the arguments bound by that call
    sent,       \* HTTP requests that call handed to the transport
    reply,      \* what the transport answered to that call, or None
    outcome     \* how that call ended: a return value or an exception

vars == <<_endpoint, _token, cijobs, op, args, sent, reply, outcome>>

----------------------------------------------------------------------------
(* Python values *)

\* Python's None, and a value that is present
None == <<>>
Some(x) == <<x>>

\* a dict and a list; the tag keeps the two apart
Dict(f) == [py |-> "dict", val |-> f]
List(s) == [py |-> "list", val |-> s]

\* key in d
HasKey(d, k) == k \in DOMAIN d.val

\* x in lst, for a list of strings
In(x, lst) == \E i \in 1..Len(lst) : lst[i] = x

\* d.update(e) for two mappings
Update(d, e) ==
    [k \in DOMAIN d \cup DOMAIN e |-> IF k \in DOMAIN e THEN e[k] ELSE d[k]]

Min(a, b) == IF a <= b THEN a ELSE b

\* the mutant of Slice: one character too few
SliceShort(s, lo, hi) == SubSeq(s, lo + 1, Min(hi - 1, Len(s)))

\* s[lo:hi] for 0 <= lo <= hi
Slice(s, lo, hi) == SubSeq(s, lo + 1, Min(hi, Len(s)))

\* the mutant of startswith: the whole string has to match
startswith_exact(s, prefix) == s = prefix

\* s.startswith(prefix)
startswith(s, prefix) ==
    /\ Len(s) >= Len(prefix)
    /\ SubSeq(s, 1, Len(prefix)) = prefix

\* f'{x}' of a string that may be None, and of an integer
Str(x) == IF x = None THEN "None" ELSE x[1]
StrInt(n) == ToString(n)

\* bool(x) of an optional integer: None and 0 are falsy
Truthy(x) == x # None /\ x[1] # 0

----------------------------------------------------------------------------
(* Module constants *)

STATUS_INPROGRESS == <<"I","n","p","r","o","g","r","e","s","s">>

STATUS_COMPLETE ==
    << <<"C","o","m","p","l","e","t","e","d">>,
       <<"S","u","c","c","e","s","s">>,
       <<"S","u","c","c","e","s","s","f","u","l">> >>

\* the mutant of STATUS_OK: 'Inprogress' left out
STATUS_OK_terminal == STATUS_COMPLETE

STATUS_OK ==
    << <<"I","n","p","r","o","g","r","e","s","s">>,
       <<"C","o","m","p","l","e","t","e","d">>,
       <<"S","u","c","c","e","s","s">>,
       <<"S","u","c","c","e","s","s","f","u","l">> >>

\* 'Success', the one status update accepts
UPDATE_OK == <<"S","u","c","c","e","s","s">>

\* 'Quick deploy initiated successfully'
QUICK_DEPLOY_OK ==
    <<"Q","u","i","c","k"," ","d","e","p","l","o","y"," ",
      "i","n","i","t","i","a","t","e","d"," ",
      "s","u","c","c","e","s","s","f","u","l","l","y">>

\* the length revision[0:10] cuts a revision to
REVISION_LEN == 10

DEFAULT_ENDPOINT == "http://localhost"
DEFAULT_TITLE == "automated-build"

MSG_TOKEN == "Please provide a valid AutoRABIT TOKEN"
MSG_PROJECT == "Please provide a valid AutoRABIT Project"
MSG_REVISION == "Please provide a valid baseline revision"

----------------------------------------------------------------------------
(* Exceptions and outcomes *)

\* the mutant of RabitError__init__: the original exception is dropped
RabitError__init__plain(args0, exc) == args0

\* RabitError.__init__: the message, with the original exception appended
\* in brackets when there is one.  A text message is a sequence of pieces.
RabitError__init__(args0, exc) ==
    IF exc # None THEN args0 \o <<" [", exc[1].text, "]">> ELSE args0

RabitError(args0) ==
    [type |-> "RabitError", msg |-> RabitError__init__(args0, None)]

RabitStatusError(args0) ==
    [type |-> "RabitStatusError", msg |-> RabitError__init__(args0, None)]

RabitConnectError(args0, exc) ==
    [type |-> "RabitConnectError", msg |-> RabitError__init__(args0, Some(exc))]

\* the KeyError of a failed d[key]
KeyError(key) == [type |-> "KeyError", msg |-> <<key>>]

\* return value
Return(value) == [kind |-> "return", value |-> value]

\* raise e  /  raise e from cause
Raise(e) == [kind |-> "raise", exc |-> e, cause |-> None]
RaiseFrom(e, cause) == [kind |-> "raise", exc |-> e, cause |-> Some(cause)]

----------------------------------------------------------------------------
(* The transport *)

\* what requests.get / requests.post can raise
RequestExceptions ==
    { [type |-> "requests.exceptions.ConnectionError", text |-> "Connection refused"],
      [type |-> "requests.exceptions.Timeout", text |-> "timed out"] }

\* status values a server can put into a body
Statuses ==
    { <<"I","n","p","r","o","g","r","e","s","s">>,
      <<"C","o","m","p","l","e","t","e","d">>,
      <<"S","u","c","c","e","s","s">>,
      <<"S","u","c","c","e","s","s","f","u","l">>,
      <<"F","a","i","l","e","d">>,
      QUICK_DEPLOY_OK,
      QUICK_DEPLOY_OK \o <<" ","f","o","r"," ","b","u","i","l","d"," ","7">>,
      <<"Q","u","i","c","k"," ","d","e","p","l","o","y"," ","f","a","i","l","e","d">> }

\* values of the list-valued fields of a body
Lists == { List(<<>>), List(<<"build-1">>) }

\* a JSON object with the fields that are present among status,
\* ciJobHistoryList and revertDeployments
Body(status, history, reverts) ==
    LET keys == (IF status # None THEN {"status"} ELSE {}) \cup
                (IF history # None THEN {"ciJobHistoryList"} ELSE {}) \cup
                (IF reverts # None THEN {"revertDeployments"} ELSE {})
    IN  Dict([k \in keys |->
                CASE k = "status" -> status[1]
                  [] k = "ciJobHistoryList" -> history[1]
                  [] k = "revertDeployments" -> reverts[1]])

Opt(S) == {None} \cup { Some(x) : x \in S }

Bodies == { Body(s, h, r) : s \in Opt(Statuses), h \in Opt(Lists), r \in Opt(Lists) }

StatusCodes == {200, 201, 302, 404, 500}

\* everything the transport can answer to one request
Replies ==
    { [kind |-> "exception", exc |-> e] : e \in RequestExceptions } \cup
    { [kind |-> "response", status_code |-> c, body |-> b] :
        c \in StatusCodes, b \in Bodies }

\* response.raise_for_status() raises for the 4xx and 5xx codes
raise_for_status(response) ==
    400 <= response.status_code /\ response.status_code < 600

\* response.json()
json(response) == response.body

\* the mutant of Send: a request the transport failed on is sent again
SendRetry(request, answer) ==
    IF answer.kind = "exception" THEN <<request, request>> ELSE <<request>>

\* requests.get / requests.post: the request reaches the transport once,
\* whatever the transport answers
Send(request, answer) == <<request>>

get(url, headers, params) ==
    [method |-> "GET", url |-> url, headers |-> headers,
     params |-> params, json |-> None]

post(url, headers, data) ==
    [method |-> "POST", url |-> url, headers |-> headers,
     params |-> None, json |-> data]

\* a call that ended: the requests it sent, the reply it got, its outcome
Done(requests, answer, result) ==
    [sent |-> requests, reply |-> answer, outcome |-> result]

----------------------------------------------------------------------------
(* The session *)

Endpoints == {DEFAULT_ENDPOINT, "https://my.autorabit.url"}
Tokens == {"", "myAutoRABITtoken"}

\* CIJobService.__init__
CIJobService(endpoint, token) ==
    [_url |-> <<endpoint, "api", "cijobs", "v1">>,
     _headers |-> ("token" :> token @@
                   "Content-Type" :> "application/json" @@
                   "Accept" :> "application/json")]

\* the mutant of init_call: an empty token is refused as well
init_call_nonempty(session, endpoint, token) ==
    IF token = None \/ token = Some("")
    THEN [_endpoint |-> Some(endpoint), _token |-> session._token,
          cijobs |-> session.cijobs,
          outcome |-> Raise(RabitError(<<MSG_TOKEN>>))]
    ELSE [_endpoint |-> Some(endpoint), _token |-> token,
          cijobs |-> Some(CIJobService(endpoint, token[1])),
          outcome |-> Return(None)]

\* init(endpoint, token): the globals after the call, and its outcome
init_call(session, endpoint, token) ==
    IF token = None
    THEN [_endpoint |-> Some(endpoint), _token |-> session._token,
          cijobs |-> session.cijobs,
          outcome |-> Raise(RabitError(<<MSG_TOKEN>>))]
    ELSE [_endpoint |-> Some(endpoint), _token |-> token,
          cijobs |-> Some(CIJobService(endpoint, token[1])),
          outcome |-> Return(None)]

init ==
    /\ op = "none"
    /\ \E endpoint \in Endpoints, token \in Opt(Tokens) :
          LET r == init_call([_endpoint |-> _endpoint, _token |-> _token,
                              cijobs |-> cijobs], endpoint, token)
          IN  /\ _endpoint' = r._endpoint
              /\ _token' = r._token
              /\ cijobs' = r.cijobs
              /\ op' = "init"
              /\ args' = [endpoint |-> endpoint, token |-> token]
              /\ sent' = <<>>
              /\ reply' = None
              /\ outcome' = r.outcome

----------------------------------------------------------------------------
(* The operations of CIJobService *)

ProjectNames == {"job-to-test-apis"}
Titles == {DEFAULT_TITLE, "testing-pyrabit"}

\* the mutant of RequireProject: the check is left out
RequireProject_off(projectName) == FALSE

\* the guard every operation starts with: projectName is None
RequireProject(projectName) == projectName = None

trigger_call(self, projectName, title, answer) ==
    IF RequireProject(projectName)
    THEN Done(<<>>, None, Raise(RabitError(<<MSG_PROJECT>>)))
    ELSE
    LET endpoint == self._url \o <<"trigger">>
        data == Dict([projectName |-> projectName, title |-> title])
        request == post(endpoint, self._headers, Some(data))
        res_body == json(answer)
    IN  IF answer.kind = "exception"
        THEN Done(Send(request, answer), Some(answer),
                  RaiseFrom(RabitConnectError(<<"Cannot trigger job">>, answer.exc),
                            answer.exc))
        ELSE IF raise_for_status(answer)
        THEN Done(Send(request, answer), Some(answer), Raise(RabitStatusError(answer)))
        ELSE IF ~HasKey(res_body, "status")
        THEN Done(Send(request, answer), Some(answer), Raise(KeyError("status")))
        ELSE IF ~In(res_body.val["status"], STATUS_OK)
        THEN Done(Send(request, answer), Some(answer), Raise(RabitStatusError(res_body)))
        ELSE Done(Send(request, answer), Some(answer), Return(res_body))

\* the mutant of poll_call: the status of the body is checked as in trigger
poll_call_checked(self, projectName, buildNumber, answer) ==
    IF RequireProject(projectName)
    THEN Done(<<>>, None, Raise(RabitError(<<MSG_PROJECT>>)))
    ELSE
    LET base == self._url \o <<"pollstatus", Str(projectName)>>
        endpoint == IF buildNumber # None
                    THEN base \o <<StrInt(buildNumber[1])>> ELSE base
        request == get(endpoint, self._headers, None)
        res_body == json(answer)
    IN  IF answer.kind = "exception"
        THEN Done(Send(request, answer), Some(answer),
                  RaiseFrom(RabitConnectError(<<"Cannot poll job">>, answer.exc),
                            answer.exc))
        ELSE IF raise_for_status(answer)
        THEN Done(Send(request, answer), Some(answer), Raise(RabitStatusError(answer)))
        ELSE IF HasKey(res_body, "status") /\ ~In(res_body.val["status"], STATUS_OK)
        THEN Done(Send(request, answer), Some(answer), Raise(RabitStatusError(res_body)))
        ELSE Done(Send(request, answer), Some(answer), Return(res_body))

poll_call(self, projectName, buildNumber, answer) ==
    IF RequireProject(projectName)
    THEN Done(<<>>, None, Raise(RabitError(<<MSG_PROJECT>>)))
    ELSE
    LET base == self._url \o <<"pollstatus", Str(projectName)>>
        endpoint == IF buildNumber # None
                    THEN base \o <<StrInt(buildNumber[1])>> ELSE base
        request == get(endpoint, self._headers, None)
    IN  IF answer.kind = "exception"
        THEN Done(Send(request, answer), Some(answer),
                  RaiseFrom(RabitConnectError(<<"Cannot poll job">>, answer.exc),
                            answer.exc))
        ELSE IF raise_for_status(answer)
        THEN Done(Send(request, answer), Some(answer), Raise(RabitStatusError(answer)))
        ELSE Done(Send(request, answer), Some(answer), Return(json(answer)))

\* the mutant of unwrap: the enclosing body is returned
unwrap_body(result, key) ==
    IF HasKey(result, key) THEN Return(result) ELSE Raise(RabitStatusError(result))

\* the end of history and rollback_history: the value of the field `key`
\* of the body, or a RabitStatusError when the body has no such field
unwrap(result, key) ==
    IF HasKey(result, key)
    THEN Return(result.val[key])
    ELSE Raise(RabitStatusError(result))

history_call(self, projectName, build_from, build_to, kwargs, answer) ==
    IF RequireProject(projectName)
    THEN Done(<<>>, None, Raise(RabitError(<<MSG_PROJECT>>)))
    ELSE
    LET from == IF "buildNumber" \in DOMAIN kwargs
                THEN kwargs["buildNumber"] ELSE build_from
        to == IF "buildNumber" \in DOMAIN kwargs
              THEN kwargs["buildNumber"] ELSE build_to
        endpoint == self._url \o <<"history", Str(projectName)>>
        parameters == Dict("from" :> from @@ "to" :> to)
        request == get(endpoint, self._headers, Some(parameters))
    IN  IF answer.kind = "exception"
        THEN Done(Send(request, answer), Some(answer),
                  RaiseFrom(RabitConnectError(<<"Cannot obtain history">>, answer.exc),
                            answer.exc))
        ELSE IF raise_for_status(answer)
        THEN Done(Send(request, answer), Some(answer), Raise(RabitStatusError(answer)))
        ELSE Done(Send(request, answer), Some(answer),
                  unwrap(json(answer), "ciJobHistoryList"))

update_call(self, projectName, revision, answer) ==
    IF RequireProject(projectName)
    THEN Done(<<>>, None, Raise(RabitError(<<MSG_PROJECT>>)))
    ELSE IF revision = None
    THEN Done(<<>>, None, Raise(RabitError(<<MSG_REVISION>>)))
    ELSE
    LET endpoint == self._url \o <<"update", "baselinerevision">>
        data == Dict([projectName |-> projectName,
                      baseLineRevision |-> Slice(revision[1], 0, REVISION_LEN)])
        request == post(endpoint, self._headers, Some(data))
        res_body == json(answer)
    IN  IF answer.kind = "exception"
        THEN Done(Send(request, answer), Some(answer),
                  RaiseFrom(RabitConnectError(<<"Cannot perform update">>, answer.exc),
                            answer.exc))
        ELSE IF raise_for_status(answer)
        THEN Done(Send(request, answer), Some(answer), Raise(RabitStatusError(answer)))
        ELSE IF ~HasKey(res_body, "status")
        THEN Done(Send(request, answer), Some(answer), Raise(KeyError("status")))
        ELSE IF UPDATE_OK # res_body.val["status"]
        THEN Done(Send(request, answer), Some(answer), Raise(RabitStatusError(res_body)))
        ELSE Done(Send(request, answer), Some(answer), Return(json(answer)))

quick_deploy_call(self, projectName, buildNumber, answer) ==
    IF RequireProject(projectName)
    THEN Done(<<>>, None, Raise(RabitError(<<MSG_PROJECT>>)))
    ELSE
    LET base == self._url \o <<"triggerquickdeploy", Str(projectName)>>
        endpoint == IF buildNumber # None
                    THEN base \o <<StrInt(buildNumber[1])>> ELSE base
        request == post(endpoint, self._headers, None)
        res_body == json(answer)
    IN  IF answer.kind = "exception"
        THEN Done(Send(request, answer), Some(answer),
                  RaiseFrom(RabitConnectError(<<"Cannot trigger job">>, answer.exc),
                            answer.exc))
        ELSE IF raise_for_status(answer)
        THEN Done(Send(request, answer), Some(answer), Raise(RabitStatusError(answer)))
        ELSE IF ~HasKey(res_body, "status")
        THEN Done(Send(request, answer), Some(answer), Raise(KeyError("status")))
        ELSE IF ~startswith(res_body.val["status"], QUICK_DEPLOY_OK)
        THEN Done(Send(request, answer), Some(answer),
                  Raise(RabitStatusError(res_body.val["status"])))
        ELSE Done(Send(request, answer), Some(answer), Return(res_body))

rollback_call(self, projectName, buildNumber, kwargs, answer) ==
    IF RequireProject(projectName)
    THEN Done(<<>>, None, Raise(RabitError(<<MSG_PROJECT>>)))
    ELSE
    LET endpoint == self._url \o <<"rollback">>
        data0 == [projectName |-> projectName]
        data1 == IF Truthy(buildNumber)
                 THEN Update(data0, [cyclenum |-> buildNumber[1]]) ELSE data0
        data == Dict(Update(data1, kwargs))
        request == post(endpoint, self._headers, Some(data))
    IN  IF answer.kind = "exception"
        THEN Done(Send(request, answer), Some(answer),
                  RaiseFrom(RabitConnectError(<<"Cannot trigger rollback">>, answer.exc),
                            answer.exc))
        ELSE IF raise_for_status(answer)
        THEN Done(Send(request, answer), Some(answer), Raise(RabitStatusError(answer)))
        ELSE Done(Send(request, answer), Some(answer), Return(json(answer)))

rollback_details_call(self, projectName, buildNumber, answer) ==
    IF RequireProject(projectName)
    THEN Done(<<>>, None, Raise(RabitError(<<MSG_PROJECT>>)))
    ELSE
    LET base == self._url \o <<"rollback", Str(projectName)>>
        endpoint == IF Truthy(buildNumber)
                    THEN base \o <<StrInt(buildNumber[1])>> ELSE base
        request == get(endpoint, self._headers, None)
    IN  IF answer.kind = "exception"
        THEN Done(Send(request, answer), Some(answer),
                  RaiseFrom(RabitConnectError(<<"Cannot obtain rollback details">>,
                                              answer.exc),
                            answer.exc))
        ELSE IF raise_for_status(answer)
        THEN Done(Send(request, answer), Some(answer), Raise(RabitStatusError(answer)))
        ELSE Done(Send(request, answer), Some(answer), Return(json(answer)))

rollback_history_call(self, projectName, buildNumber, answer) ==
    IF RequireProject(projectName)
    THEN Done(<<>>, None, Raise(RabitError(<<MSG_PROJECT>>)))
    ELSE
    LET base == self._url \o <<"rollback", "history", Str(projectName)>>
        endpoint == IF Truthy(buildNumber)
                    THEN base \o <<StrInt(buildNumber[1])>> ELSE base
        request == get(endpoint, self._headers, None)
    IN  IF answer.kind = "exception"
        THEN Done(Send(request, answer), Some(answer),
                  RaiseFrom(RabitConnectError(<<"Cannot obtain rollback history">>,
                                              answer.exc),
                            answer.exc))
        ELSE IF raise_for_status(answer)
        THEN Done(Send(request, answer), Some(answer), Raise(RabitStatusError(answer)))
        ELSE Done(Send(request, answer), Some(answer),
                  unwrap(json(answer), "revertDeployments"))

----------------------------------------------------------------------------
(* The calls a script makes *)

BuildNumbers == {0, 7}

\* build_from and build_to: the defaults, and a range
HistoryRanges == { <<-1, -1>>, <<1, 3>> }

NoKwargs == [k \in {} |-> None]

\* what a caller of history passes besides the named parameters
HistoryKwargs == { NoKwargs, [buildNumber |-> 5] }

\* what a caller of rollback passes besides the named parameters
RollbackKwargs ==
    { NoKwargs,
      [validateDeployment |-> TRUE, testLevel |-> "RunTestsBasedOnChanges"] }

\* the characters revisions are made of
RevisionChars ==
    <<"1","2","3","4","5","6","7","8","9","0","a","b","c","d","e","f">>

\* the longest revision a caller passes, and the number of places in
\* RevisionChars a revision starts at
MaxRevisionLen == 12
MaxRevisionStart == 2

Revisions ==
    { SubSeq(RevisionChars, i, i + n - 1) :
        i \in 1..MaxRevisionStart, n \in 0..MaxRevisionLen }

\* one call of an operation on the current client
Finish(name, a, r) ==
    /\ op' = name
    /\ args' = a
    /\ sent' = r.sent
    /\ reply' = r.reply
    /\ outcome' = r.outcome
    /\ UNCHANGED <<_endpoint, _token, cijobs>>

trigger ==
    /\ op = "none"
    /\ cijobs # None
    /\ \E projectName \in Opt(ProjectNames), title \in Titles, answer \in Replies :
          Finish("trigger", [projectName |-> projectName, title |-> title],
                 trigger_call(cijobs[1], projectName, title, answer))

poll ==
    /\ op = "none"
    /\ cijobs # None
    /\ \E projectName \in Opt(ProjectNames), buildNumber \in Opt(BuildNumbers),
          answer \in Replies :
          Finish("poll", [projectName |-> projectName, buildNumber |-> buildNumber],
                 poll_call(cijobs[1], projectName, buildNumber, answer))

history ==
    /\ op = "none"
    /\ cijobs # None
    /\ \E projectName \in Opt(ProjectNames), range \in HistoryRanges,
          kwargs \in HistoryKwargs, answer \in Replies :
          Finish("history",
                 [projectName |-> projectName, build_from |-> range[1],
                  build_to |-> range[2], kwargs |-> kwargs],
                 history_call(cijobs[1], projectName, range[1], range[2],
                              kwargs, answer))

update ==
    /\ op = "none"
    /\ cijobs # None
    /\ \E projectName \in Opt(ProjectNames), revision \in Opt(Revisions),
          answer \in Replies :
          Finish("update", [projectName |-> projectName, revision |-> revision],
                 update_call(cijobs[1], projectName, revision, answer))

quick_deploy ==
    /\ op = "none"
    /\ cijobs # None
    /\ \E projectName \in Opt(ProjectNames), buildNumber \in Opt(BuildNumbers),
          answer \in Replies :
          Finish("quick_deploy",
                 [projectName |-> projectName, buildNumber |-> buildNumber],
                 quick_deploy_call(cijobs[1], projectName, buildNumber, answer))

rollback ==
    /\ op = "none"
    /\ cijobs # None
    /\ \E projectName \in Opt(ProjectNames), buildNumber \in Opt(BuildNumbers),
          kwargs \in RollbackKwargs, answer \in Replies :
          Finish("rollback",
                 [projectName |-> projectName, buildNumber |-> buildNumber,
                  kwargs |-> kwargs],
                 rollback_call(cijobs[1], projectName, buildNumber, kwargs, answer))

rollback_details ==
    /\ op = "none"
    /\ cijobs # None
    /\ \E projectName \in Opt(ProjectNames), buildNumber \in Opt(BuildNumbers),
          answer \in Replies :
          Finish("rollback_details",
                 [projectName |-> projectName, buildNumber |-> buildNumber],
                 rollback_details_call(cijobs[1], projectName, buildNumber, answer))

rollback_history ==
    /\ op = "none"
    /\ cijobs # None
    /\ \E projectName \in Opt(ProjectNames), buildNumber \in Opt(BuildNumbers),
          answer \in Replies :
          Finish("rollback_history",
                 [projectName |-> projectName, buildNumber |-> buildNumber],
                 rollback_history_call(cijobs[1], projectName, buildNumber, answer))

----------------------------------------------------------------------------

Init ==
    /\ _endpoint = None
    /\ _token = None
    /\ cijobs = None
    /\ op = "none"
    /\ args = None
    /\ sent = <<>>
    /\ reply = None
    /\ outcome = None

\* the calling script takes the outcome of the call and goes on to its next
\* statement
takeOutcome ==
    /\ op # "none"
    /\ op' = "none"
    /\ args' = None
    /\ sent' = <<>>
    /\ reply' = None
    /\ outcome' = None
    /\ UNCHANGED <<_endpoint, _token, cijobs>>

Next ==
    \/ init
    \/ trigger
    \/ poll
    \/ history
    \/ update
    \/ quick_deploy
    \/ rollback
    \/ rollback_details
    \/ rollback_history
    \/ takeOutcome

Spec == Init /\ [][Next]_vars

----------------------------------------------------------------------------
(* Properties *)

Operations ==
    {"trigger", "poll", "history", "update", "quick_deploy", "rollback",
     "rollback_details", "rollback_history"}

\* the call that just ended was an operation called without a required
\* identifying parameter
MissingRequired ==
    /\ op \in Operations
    /\ \/ args.projectName = None
       \/ op = "update" /\ args.revision = None

\* the call that just ended was an operation that got an answer from the
\* transport
Answered == op \in Operations /\ reply # None

\* ... and the answer was a response with a status code of the success range
HttpSuccess ==
    /\ Answered
    /\ reply[1].kind = "response"
    /\ 200 <= reply[1].status_code /\ reply[1].status_code < 300

Raised(type) == outcome.kind = "raise" /\ outcome.exc.type = type

Returned(value) == outcome.kind = "return" /\ outcome.value = value

\* C1: an operation called without projectName (or, for update, without
\* revision) raises the base RabitError and hands no request to the transport.
C1_MissingParameterIsConfigurationError ==
    MissingRequired => Raised("RabitError") /\ sent = <<>>

C1_Witness ==
    /\ op = "update"
    /\ args.projectName # None
    /\ args.revision = None
    /\ Raised("RabitError")
    /\ sent = <<>>

\* C2 as stated: init called with the token absent or empty raises RabitError,
\* for every endpoint, without network activity.
C2_AbsentOrEmptyTokenRejected ==
    (op = "init" /\ args.token \in {None, Some("")})
        => Raised("RabitError") /\ sent = <<>>

\* C2 as amended: init raises RabitError exactly when the token is absent
\* (None), for every endpoint; any string, the empty one included, is taken
\* as the token and stored; no call of init reaches the transport.
C2_OnlyAbsentTokenRejected ==
    op = "init" =>
        /\ sent = <<>>
        /\ args.token = None => Raised("RabitError")
        /\ args.token # None => Returned(None) /\ _token = args.token

C2_Witness ==
    /\ op = "init"
    /\ args.endpoint = DEFAULT_ENDPOINT
    /\ args.token = None
    /\ Raised("RabitError")
    /\ sent = <<>>

\* C3: an operation hands at most one request to the transport, and exactly
\* one when its required parameters are present, whatever the answer.
C3_OneRequestPerCall ==
    op \in Operations =>
        /\ Len(sent) <= 1
        /\ ~MissingRequired => Len(sent) = 1

C3_Witness ==
    /\ op = "trigger"
    /\ Answered
    /\ reply[1].kind = "exception"
    /\ Len(sent) = 1

\* C4: when the transport raises, the operation raises RabitConnectError, with
\* the transport's exception as its cause and the exception's text in its
\* message; the transport's own exception type does not reach the caller.
C4_TransportFailureIsConnectError ==
    (Answered /\ reply[1].kind = "exception") =>
        /\ Raised("RabitConnectError")
        /\ outcome.cause = Some(reply[1].exc)
        /\ \E i \in 1..Len(outcome.exc.msg) : outcome.exc.msg[i] = reply[1].exc.text
        /\ outcome.exc.type \notin { e.type : e \in RequestExceptions }

C4_Witness ==
    /\ op = "rollback_history"
    /\ Answered
    /\ reply[1].kind = "exception"
    /\ Raised("RabitConnectError")


\* C5 as stated: whatever the transport answers, an operation ends by
\* returning a value or by raising RabitError, RabitStatusError or
\* RabitConnectError; no other kind of exception reaches the caller.
C5_OnlyClassifiedErrors ==
    op \in Operations =>
        \/ outcome.kind = "return"
        \/ outcome.exc.type \in {"RabitError", "RabitStatusError", "RabitConnectError"}

\* the statuses trigger accepts, as the claim lists them
AcceptedStatuses ==
    { <<"I","n","p","r","o","g","r","e","s","s">>,
      <<"C","o","m","p","l","e","t","e","d">>,
      <<"S","u","c","c","e","s","s">>,
      <<"S","u","c","c","e","s","s","f","u","l">> }

\* C6: trigger, on a response of the success range, returns the body
\* unchanged exactly when the body's status is Inprogress, Completed, Success
\* or Successful, and raises RabitStatusError for every other status value.
C6_TriggerAcceptsOnlyOkStatus ==
    (op = "trigger" /\ HttpSuccess) =>
        LET body == reply[1].body
            accepted == HasKey(body, "status") /\ body.val["status"] \in AcceptedStatuses
        IN  /\ Returned(body) <=> accepted
            /\ outcome.kind = "return" => Returned(body)
            /\ (HasKey(body, "status") /\ ~accepted) => Raised("RabitStatusError")

C6_Witness ==
    /\ op = "trigger"
    /\ HttpSuccess
    /\ HasKey(reply[1].body, "status")
    /\ reply[1].body.val["status"] = <<"I","n","p","r","o","g","r","e","s","s">>
    /\ Returned(reply[1].body)

\* C7: poll, on a response of the success range, returns the body whatever
\* its status field holds or lacks, and raises RabitStatusError only on a
\* response whose status code is outside the success range.
C7_PollReturnsEverySuccessBody ==
    op = "poll" =>
        /\ HttpSuccess => Returned(reply[1].body)
        /\ Raised("RabitStatusError") =>
              (Answered /\ reply[1].kind = "response" /\ ~HttpSuccess)

C7_Witness ==
    /\ op = "poll"
    /\ HttpSuccess
    /\ HasKey(reply[1].body, "status")
    /\ reply[1].body.val["status"] = <<"F","a","i","l","e","d">>
    /\ Returned(reply[1].body)

\* the field an unwrapping operation returns
UnwrappedField ==
    IF op = "history" THEN "ciJobHistoryList" ELSE "revertDeployments"

\* C8: history and rollback_history, on a response of the success range,
\* return the value of ciJobHistoryList (revertDeployments) as it is when the
\* body has the field and raise RabitStatusError when it has not; they never
\* return the body itself.
C8_UnwrapReturnsTheField ==
    (op \in {"history", "rollback_history"} /\ HttpSuccess) =>
        LET body == reply[1].body
        IN  /\ HasKey(body, UnwrappedField) => Returned(body.val[UnwrappedField])
            /\ ~HasKey(body, UnwrappedField) => Raised("RabitStatusError")
            /\ ~Returned(body)

C8_Witness ==
    /\ op = "history"
    /\ HttpSuccess
    /\ HasKey(reply[1].body, "ciJobHistoryList")
    /\ HasKey(reply[1].body, "revertDeployments")
    /\ reply[1].body.val["ciJobHistoryList"] # reply[1].body.val["revertDeployments"]
    /\ Returned(reply[1].body.val["ciJobHistoryList"])

\* C9: update called with a projectName and a revision sends, as
\* baseLineRevision, the first 10 characters of a revision longer than 10
\* characters and the revision itself otherwise.
C9_RevisionCutToTen ==
    (op = "update" /\ ~MissingRequired) =>
        /\ Len(sent) >= 1
        /\ \A k \in 1..Len(sent) :
              LET revision == args.revision[1]
                  baseLine == sent[k].json[1].val["baseLineRevision"]
              IN  /\ Len(revision) > 10 =>
                        /\ Len(baseLine) = 10
                        /\ \A i \in 1..10 : baseLine[i] = revision[i]
                  /\ Len(revision) <= 10 => baseLine = revision

C9_Witness ==
    /\ op = "update"
    /\ ~MissingRequired
    /\ Len(args.revision[1]) > 10
    /\ Len(sent) = 1
    /\ Len(sent[1].json[1].val["baseLineRevision"]) = 10

\* 'Quick deploy initiated successfully', as the claim spells it
QuickDeployPrefix ==
    <<"Q","u","i","c","k"," ","d","e","p","l","o","y"," ",
      "i","n","i","t","i","a","t","e","d"," ",
      "s","u","c","c","e","s","s","f","u","l","l","y">>

\* s is QuickDeployPrefix followed by any suffix
HasQuickDeployPrefix(s) ==
    \E suffix \in { SubSeq(s, i, Len(s)) : i \in 1..(Len(s) + 1) } :
        s = QuickDeployPrefix \o suffix

\* C10: quick_deploy, on a response of the success range, returns the body
\* exactly when the body's status starts with 'Quick deploy initiated
\* successfully', and raises RabitStatusError for every other status string.
C10_QuickDeployAcceptsPrefix ==
    (op = "quick_deploy" /\ HttpSuccess) =>
        LET body == reply[1].body
            accepted == HasKey(body, "status") /\ HasQuickDeployPrefix(body.val["status"])
        IN  /\ Returned(body) <=> accepted
            /\ outcome.kind = "return" => Returned(body)
            /\ (HasKey(body, "status") /\ ~accepted) => Raised("RabitStatusError")

C10_Witness ==
    /\ op = "quick_deploy"
    /\ HttpSuccess
    /\ HasKey(reply[1].body, "status")
    /\ Len(reply[1].body.val["status"]) > Len(QuickDeployPrefix)
    /\ Returned(reply[1].body)

\* the operations that put the build number into the URL, and the number of
\* path segments each appends to the client's prefix before it
UrlBuildOperations ==
    {"poll", "quick_deploy", "rollback_details", "rollback_history"}

PathSegments == IF op = "rollback_history" THEN 3 ELSE 2

\* C11 as stated: the build number reaches the server exactly when the caller
\* gives one, whatever integer it is: poll, quick_deploy, rollback_details and
\* rollback_history end the URL with /{buildNumber} if and only if a
\* buildNumber was given, and rollback puts cyclenum = buildNumber into the
\* body if and only if one was given.
C11_BuildNumberSentWhenGiven ==
    (op \in UrlBuildOperations \cup {"rollback"} /\ ~MissingRequired) =>
        /\ Len(sent) = 1
        /\ LET given == args.buildNumber # None
               url == sent[1].url
               plain == Len(cijobs[1]._url) + PathSegments
           IN  IF op = "rollback"
               THEN LET data == sent[1].json[1].val
                    IN  /\ given <=> "cyclenum" \in DOMAIN data
                        /\ given => data["cyclenum"] = args.buildNumber[1]
               ELSE /\ given <=> Len(url) = plain + 1
                    /\ ~given => Len(url) = plain
                    /\ given => url[Len(url)] = ToString(args.buildNumber[1])

\* the stored token and the current client's token header agree, and the
\* client's URL prefix is {endpoint}/api/cijobs/v1 for some endpoint
TokenAndClientAgree ==
    cijobs # None =>
        /\ _token = Some(cijobs[1]._headers["token"])
        /\ Len(cijobs[1]._url) = 4
        /\ SubSeq(cijobs[1]._url, 2, 4) = <<"api", "cijobs", "v1">>

\* C12 as stated: after any sequence of init calls the stored endpoint, the
\* stored token and the current client's URL prefix and token header all come
\* from the most recent successful init; an init that fails changes none of
\* them, so that before the first successful init nothing is stored at all.
C12_SessionFromLastSuccessfulInit ==
    /\ TokenAndClientAgree
    /\ cijobs # None => _endpoint = Some(cijobs[1]._url[1])
    /\ cijobs = None => _endpoint = None /\ _token = None

====
